---- MODULE Spec2Model ----
(***************************************************************************)
(* Model of the data-cleaning toolkit in src/clean_data/clean_data.py.     *)
(*                                                                         *)
(* A pandas DataFrame is a record                                          *)
(*     [index |-> sequence of row keys, columns |-> sequence of names,     *)
(*      data  |-> [column name -> [row key -> cell]],                      *)
(*      dtypes |-> [column name -> "number" or "object"]]                  *)
(* and a cell is a tagged value: NaN, Num(n), Text(s), or a Python list.   *)
(* Every function of the source is an operator computing what the code     *)
(* computes; a call is one action that runs the whole function on the      *)
(* caller's table `dataframe`, leaving the returned value in `ret` and the *)
(* raised exception (if any) in `err`.                                     *)
(***************************************************************************)
EXTENDS Integers, Sequences, FiniteSets, TLC

VARIABLES
    pc,          \* position of the caller: "call_<function>" or "done"
    args,        \* the arguments of the call other than the table
    dataframe,   \* the caller's table object (mutated in place by the code)
    dataframe0,  \* the table as it was when the call was made
    ret,         \* the value returned to the caller, NoValue if none
    err          \* the exception that reached the caller, NoError if none

vars == <<pc, args, dataframe, dataframe0, ret, err>>

-----------------------------------------------------------------------------
(* Cells *)

NaN == [tag |-> "Null", val |-> 0]

\* the greatest common divisor of two naturals, not both zero
RECURSIVE Gcd(_, _)
Gcd(a, b) == IF b = 0 THEN a ELSE Gcd(b, a % b)

Abs(n) == IF n < 0 THEN -n ELSE n

\* the float n/d, kept exact as a fraction in lowest terms
Rat(n, d) ==
    LET g == Gcd(Abs(n), d)
    IN  [tag |-> "Num", val |-> <<n \div g, d \div g>>]

Num(n) == Rat(n, 1)

\* a Python str, held as the sequence of its characters
Text(s) == [tag |-> "Text", val |-> s]

List(s) == [tag |-> "List", val |-> s]

isnull(c) == c.tag = "Null"

NoValue == [tag |-> "NoValue"]

NoError == "NoError"

-----------------------------------------------------------------------------
(* Sequences and tables *)

Range(s) == {s[i] : i \in DOMAIN s}

\* the position of x in the sequence s
Pos(s, x) == CHOOSE i \in DOMAIN s : s[i] = x

\* s without the elements of D, order kept
Without(s, D) == SelectSeq(s, LAMBDA x : x \notin D)

\* a table whose columns have the given dtypes: "number" (int64, float64)
\* or "object"
Frame(index, columns, data, dtypes) ==
    [index |-> index, columns |-> columns, data |-> data, dtypes |-> dtypes]

\* the dtype pandas gives a column it builds from cells: numeric when it has
\* rows and every cell is a number or a null (a column of nulls only is
\* float64), object when it holds a text or a list or has no rows
InferDtype(index, values) ==
    IF index # <<>> /\ \A r \in Range(index) : values[r].tag \in {"Null", "Num"}
    THEN "number" ELSE "object"

\* a table built from cells, its dtypes inferred
DataFrame(index, columns, data) ==
    Frame(index, columns, data,
          [c \in Range(columns) |-> InferDtype(index, data[c])])

\* a pandas Series: row keys, dtype and cells
Series(index, dtype, values) ==
    [index |-> index, dtype |-> dtype, values |-> values]

\* dataframe[column]
Column(df, c) == Series(df.index, df.dtypes[c], df.data[c])

\* the row keys 1..k of the tables with at most n rows
Indexes(n) == {[i \in 1..k |-> i] : k \in 0..n}

\* every table with the given row keys and columns and cells in Cells
Tables(index, columns, Cells) ==
    {DataFrame(index, columns, d) :
        d \in [Range(columns) -> [Range(index) -> Cells]]}

\* DataFrame.drop(labels, axis=0): every column keeps its dtype
DropRows(df, labels) ==
    LET keep == Without(df.index, labels)
    IN  Frame(keep, df.columns,
            [c \in Range(df.columns) |->
                [r \in Range(keep) |-> df.data[c][r]]],
            df.dtypes)

\* DataFrame.drop(labels, axis=1), every label being a column
DropColumns(df, labels) ==
    LET keep == Without(df.columns, labels)
    IN  Frame(df.index, keep, [c \in Range(keep) |-> df.data[c]],
              [c \in Range(keep) |-> df.dtypes[c]])

\* dataframe[column] = series: an existing column is overwritten in place,
\* a new one is appended after the last column; the column takes the cells
\* and the dtype of the series
SetColumn(df, column, series) ==
    IF column \in Range(df.columns)
    THEN Frame(df.index, df.columns,
            [df.data EXCEPT ![column] = series.values],
            [df.dtypes EXCEPT ![column] = series.dtype])
    ELSE Frame(df.index, Append(df.columns, column),
            [c \in Range(df.columns) \cup {column} |->
                IF c = column THEN series.values ELSE df.data[c]],
            [c \in Range(df.columns) \cup {column} |->
                IF c = column THEN series.dtype ELSE df.dtypes[c]])

-----------------------------------------------------------------------------
(* drop_missing *)

MaxRows == 3
MaxCols == 2

\* the column names of a table with n columns, in order
NamedColumns(n) == [i \in 1..n |-> <<"c1", "c2", "c3", "c4">>[i]]

\* a threshold is the fraction num/den
Thresholds ==
    {[num |-> 0, den |-> 1], [num |-> 1, den |-> 5],
     [num |-> 1, den |-> 2], [num |-> 1, den |-> 1]}

\* dataframe.isnull().sum(axis=1) for one row
NullsInRow(df, r) == Cardinality({c \in Range(df.columns) : isnull(df.data[c][r])})

\* dataframe.isnull().sum(axis=0) for one column
NullsInColumn(df, c) == Cardinality({r \in Range(df.index) : isnull(df.data[c][r])})

\* (count / n) > threshold; with n = 0 the quotient 0/0 is NaN, and
\* NaN > threshold is False
ExceedsLax(count, n, threshold) ==
    n > 0 /\ count * threshold.den >= threshold.num * n

Exceeds(count, n, threshold) ==
    n > 0 /\ count * threshold.den > threshold.num * n

drop_missing(df, row, threshold) ==
    IF row
    THEN LET n == Len(df.columns)
             to_drop == {r \in Range(df.index) :
                            Exceeds(NullsInRow(df, r), n, threshold)}
         IN  DropRows(df, to_drop)
    ELSE LET n == Len(df.index)
             to_drop == {c \in Range(df.columns) :
                            Exceeds(NullsInColumn(df, c), n, threshold)}
         IN  DropColumns(df, to_drop)

InitDropMissing ==
    /\ pc = "call_drop_missing"
    /\ \E nr \in 0..MaxRows, nc \in 0..MaxCols :
          dataframe \in Tables([i \in 1..nr |-> i], NamedColumns(nc), {NaN, Num(1)})
    /\ dataframe0 = dataframe
    /\ \E row \in BOOLEAN, threshold \in Thresholds :
          args = [row |-> row, threshold |-> threshold]
    /\ ret = NoValue
    /\ err = NoError

CallDropMissing ==
    /\ pc = "call_drop_missing"
    /\ ret' = drop_missing(dataframe, args.row, args.threshold)
    /\ pc' = "done"
    /\ UNCHANGED <<args, dataframe, dataframe0, err>>

SpecDropMissing == InitDropMissing /\ [][CallDropMissing]_vars

\* the null fraction of an entry is count/n; "fraction <= threshold"
FractionAtMost(count, n, threshold) ==
    count * threshold.den <= threshold.num * n

\* C6: with a non-empty opposite axis, drop_missing returns exactly the rows
\* (row=True) or columns (row=False) of the input whose null fraction is
\* <= threshold, in their order, and leaves the other axis and every kept
\* cell as it was.
C6_DropMissingExact ==
    (pc = "done" /\ "row" \in DOMAIN args) =>
        LET df == dataframe0
            nr == Len(df.index)
            nc == Len(df.columns)
        IN  /\ (args.row /\ nc > 0) =>
                /\ ret.index = SelectSeq(df.index, LAMBDA r :
                        FractionAtMost(NullsInRow(df, r), nc, args.threshold))
                /\ ret.columns = df.columns
                /\ \A c \in Range(ret.columns), r \in Range(ret.index) :
                        ret.data[c][r] = df.data[c][r]
            /\ (~args.row /\ nr > 0) =>
                /\ ret.columns = SelectSeq(df.columns, LAMBDA c :
                        FractionAtMost(NullsInColumn(df, c), nr, args.threshold))
                /\ ret.index = df.index
                /\ \A c \in Range(ret.columns), r \in Range(ret.index) :
                        ret.data[c][r] = df.data[c][r]

\* a call that removed one entry whose fraction is above the threshold and
\* kept one whose fraction equals it
C6_Witness ==
    /\ pc = "done" /\ "row" \in DOMAIN args
    /\ args.row
    /\ Len(dataframe0.columns) = 2
    /\ args.threshold = [num |-> 1, den |-> 2]
    /\ \E r1, r2 \in Range(dataframe0.index) :
          /\ NullsInRow(dataframe0, r1) = 1 /\ r1 \in Range(ret.index)
          /\ NullsInRow(dataframe0, r2) = 2 /\ r2 \notin Range(ret.index)

-----------------------------------------------------------------------------
(* columns_missing_list, handle_numeric *)

MaxNumRows == 4

\* select_dtypes(include=["number"]) and select_dtypes(include=["object"])
IsNumber(df, c) == df.dtypes[c] = "number"

IsObject(df, c) == df.dtypes[c] = "object"

\* dataframe.select_dtypes(include=[column_type]).isnull().sum(axis=0),
\* filtered to the columns with a positive count, in the table's order
columns_missing_list(df, column_type) ==
    SelectSeq(df.columns, LAMBDA c :
        /\ IF column_type = "number" THEN IsNumber(df, c) ELSE IsObject(df, c)
        /\ NullsInColumn(df, c) > 0)

\* series.dropna(): the non-null cells in row order
dropna(df, c) ==
    LET rows == SelectSeq(df.index, LAMBDA r : ~isnull(df.data[c][r]))
    IN  [i \in 1..Len(rows) |-> df.data[c][rows[i]]]

\* order of two numeric cells
NumLess(a, b) == a.val[1] * b.val[2] < b.val[1] * a.val[2]

NumLeq(a, b) == a.val[1] * b.val[2] <= b.val[1] * a.val[2]

NumAdd(a, b) == Rat(a.val[1] * b.val[2] + b.val[1] * a.val[2], a.val[2] * b.val[2])

\* a / k for a natural k > 0
NumDiv(a, k) == Rat(a.val[1], a.val[2] * k)

\* sorted(s)[k], counting from 1
KthSmallest(s, k) ==
    CHOOSE x \in Range(s) :
        /\ Cardinality({i \in DOMAIN s : NumLess(s[i], x)}) < k
        /\ Cardinality({i \in DOMAIN s : NumLeq(s[i], x)}) >= k

RECURSIVE NumSum(_)
NumSum(s) == IF s = <<>> THEN Num(0) ELSE NumAdd(s[1], NumSum(Tail(s)))

\* the lower of the two middle values, never their mean
LowerMedian(s) ==
    IF s = <<>> THEN NaN ELSE KthSmallest(s, (Len(s) + 1) \div 2)

\* np.median: the middle value of the sorted values, the mean of the two
\* middle values for an even count, nan (with a warning) for no values
np_median(s) ==
    LET n == Len(s)
    IN  IF n = 0 THEN NaN
        ELSE IF n % 2 = 1 THEN KthSmallest(s, (n + 1) \div 2)
        ELSE NumDiv(NumAdd(KthSmallest(s, n \div 2), KthSmallest(s, n \div 2 + 1)), 2)

\* np.mean: nan (with a warning) for no values
np_mean(s) == IF s = <<>> THEN NaN ELSE NumDiv(NumSum(s), Len(s))

\* series.fillna(value); fillna(nan) changes nothing. A numeric series
\* stays numeric unless a text is stored in it; an object series is
\* converted after the fill, a null filled or not, and is a numeric series
\* when it is left with numbers only
fillna(series, value) ==
    LET filled == [r \in Range(series.index) |->
                      IF isnull(series.values[r]) THEN value ELSE series.values[r]]
        stays == /\ series.dtype = "number"
                 /\ \/ value.tag \notin {"Text", "List"}
                    \/ \A r \in Range(series.index) : ~isnull(series.values[r])
    IN  Series(series.index,
               IF stays THEN "number" ELSE InferDtype(series.index, filled),
               filled)

\* series[series.isna()] = value: the null cells are overwritten, and a text
\* stored in a numeric series makes it an object series; no other dtype
\* changes
AssignWhereNull(series, value) ==
    Series(series.index,
           IF /\ value.tag \in {"Text", "List"}
              /\ \E r \in Range(series.index) : isnull(series.values[r])
           THEN "object" ELSE series.dtype,
           [r \in Range(series.index) |->
               IF isnull(series.values[r]) THEN value ELSE series.values[r]])

\* the loop of handle_numeric over `columns`, assigning into the table
RECURSIVE ImputeColumns(_, _, _)
ImputeColumns(df, columns, method) ==
    IF columns = <<>> THEN df
    ELSE LET column == Head(columns)
             stat == IF method = "median"
                     THEN np_median(dropna(df, column))
                     ELSE np_mean(dropna(df, column))
         IN  ImputeColumns(SetColumn(df, column, fillna(Column(df, column), stat)),
                           Tail(columns), method)

\* handle_numeric mutates the table it is given and returns that object
handle_numeric(df, method) ==
    ImputeColumns(df, columns_missing_list(df, "number"), method)

\* tables with two numeric columns and a text column, in either order
InitHandleNumeric ==
    /\ pc = "call_handle_numeric"
    /\ \E index \in Indexes(MaxNumRows) \ {<<>>} :
       \E x \in [Range(index) -> {NaN, Num(1), Num(2), Num(5)}],
          y \in [Range(index) -> {NaN, Num(4)}],
          columns \in {<<"x", "y", "t">>, <<"y", "t", "x">>} :
            dataframe = DataFrame(index, columns,
                [c \in {"x", "y", "t"} |->
                    IF c = "x" THEN x ELSE IF c = "y" THEN y
                    ELSE [r \in Range(index) |-> Text(<<"t">>)]])
    /\ dataframe0 = dataframe
    /\ \E method \in {"median", "mean"} : args = [method |-> method]
    /\ ret = NoValue
    /\ err = NoError

CallHandleNumeric ==
    /\ pc = "call_handle_numeric"
    /\ dataframe' = handle_numeric(dataframe, args.method)
    /\ ret' = dataframe'
    /\ pc' = "done"
    /\ UNCHANGED <<args, dataframe0, err>>

SpecHandleNumeric == InitHandleNumeric /\ [][CallHandleNumeric]_vars

\* the non-null values of column c of the input, as a set of row keys
Valued(df, c) == {r \in Range(df.index) : ~isnull(df.data[c][r])}

\* m is the median of column c of df. For an odd number n of values it is a
\* value with at most (n-1)/2 values below it and at most (n-1)/2 above it;
\* for an even n it is the midpoint of two cells a <= b, a with fewer than
\* n/2 values below it and b with fewer than n/2 values above it.
IsMedianOf(m, df, c) ==
    LET V == Valued(df, c)
        n == Cardinality(V)
        at(r) == df.data[c][r]
        below(x) == Cardinality({r \in V : NumLess(at(r), x)})
        above(x) == Cardinality({r \in V : NumLess(x, at(r))})
    IN  IF n % 2 = 1
        THEN \E a \in V :
                /\ m = at(a)
                /\ 2 * below(m) <= n - 1
                /\ 2 * above(m) <= n - 1
        ELSE \E a, b \in V :
                /\ a # b
                /\ NumLeq(at(a), at(b))
                /\ m = NumDiv(NumAdd(at(a), at(b)), 2)
                /\ 2 * below(at(a)) < n /\ 2 * (n - above(at(a))) >= n
                /\ 2 * above(at(b)) < n /\ 2 * (n - below(at(b))) >= n

\* C7: handle_numeric(table, "median") overwrites every null of a numeric
\* column that has a null and a non-null cell by the median of the column's
\* non-null input values and keeps every non-null cell, whatever the order
\* of the table's columns.
C7_MedianImputed ==
    (pc = "done" /\ "method" \in DOMAIN args /\ args.method = "median") =>
        /\ ret.index = dataframe0.index
        /\ ret.columns = dataframe0.columns
        /\ \A c \in Range(dataframe0.columns) :
              (/\ IsNumber(dataframe0, c)
               /\ NullsInColumn(dataframe0, c) > 0
               /\ Valued(dataframe0, c) # {}) =>
                  \A r \in Range(dataframe0.index) :
                      IF isnull(dataframe0.data[c][r])
                      THEN IsMedianOf(ret.data[c][r], dataframe0, c)
                      ELSE ret.data[c][r] = dataframe0.data[c][r]

\* a median call on a table whose two numeric columns both had nulls, one of
\* them with an even and the other with an odd number of values
C7_Witness ==
    /\ pc = "done" /\ "method" \in DOMAIN args /\ args.method = "median"
    /\ dataframe0.columns = <<"y", "t", "x">>
    /\ dataframe0.data["x"] = <<NaN, Num(1), Num(2), Num(5)>>
    /\ dataframe0.data["y"] = <<Num(4), NaN, Num(4), NaN>>
    /\ ret.data["x"] = <<Num(2), Num(1), Num(2), Num(5)>>
    /\ ret.data["y"] = <<Num(4), Num(4), Num(4), Num(4)>>

\* C8: handle_numeric on a table with a numeric column of nulls only fails
\* with an error and returns no table.
C8_AllNullColumnFails ==
    (/\ pc = "done" /\ "method" \in DOMAIN args
     /\ \E c \in Range(dataframe0.columns) :
           IsNumber(dataframe0, c) /\ Valued(dataframe0, c) = {}) =>
        err # NoError /\ ret = NoValue

-----------------------------------------------------------------------------
(* value_counts, search_similar_zip, get_mode_by_zip, get_mode *)

MaxZipRows == 4
MaxModeRows == 4

\* an outcome of a call: the exception raised (NoError if none) and the
\* value returned (NoValue if it raised)
Returned(value) == [err |-> NoError, ret |-> value]

Raised(exception) == [err |-> exception, ret |-> NoValue]

\* the state of a run that works on the caller's table
Run(e, df) == [err |-> e, df |-> df]

\* an outcome of a call that works on the caller's table: the exception, the
\* table as the call leaves it, and the value returned
Outcome(e, df, value) == [err |-> e, df |-> df, ret |-> value]

HasColumn(df, c) == c \in Range(df.columns)

\* dataframe.loc[i, column] = value; a text stored in a numeric column makes
\* it an object column
SetCell(df, i, column, value) ==
    Frame(df.index, df.columns, [df.data EXCEPT ![column][i] = value],
          [df.dtypes EXCEPT ![column] =
              IF value.tag \in {"Text", "List"} THEN "object" ELSE @])

\* value_counts() hashes the cells it counts: a list among them is a
\* TypeError
Unhashable(df, c, rows) == \E r \in rows : df.data[c][r].tag = "List"

\* series.value_counts(): how often value v occurs among the cells of column
\* c in the rows `rows`; nulls are not counted
Count(df, c, rows, v) == Cardinality({r \in rows : df.data[c][r] = v})

\* the non-null values of column c in the rows `rows`
ValuesIn(df, c, rows) == {df.data[c][r] : r \in {q \in rows : ~isnull(df.data[c][q])}}

\* value_counts().index[0] for column c restricted to `rows`: a value with
\* the highest count. pandas leaves the order of equally frequent values to
\* its sort, so every such value is a possible first entry.
TopValues(df, c, rows) ==
    {v \in ValuesIn(df, c, rows) :
        \A w \in ValuesIn(df, c, rows) : Count(df, c, rows, w) <= Count(df, c, rows, v)}

\* value_counts().iloc[0]: the highest count
TopCount(df, c, rows) ==
    CHOOSE n \in 1..Cardinality(rows) :
        \E v \in TopValues(df, c, rows) : Count(df, c, rows, v) = n

\* dataframe["zipcode"] == zipcode raises a ValueError when zipcode is a
\* list whose length is not the number of rows
LengthsDiffer(df, zipcode) ==
    zipcode.tag = "List" /\ Len(zipcode.val) # Len(df.index)

\* the rows selected by dataframe["zipcode"] == zipcode; nothing equals NaN,
\* and a list of as many strings as there are rows is compared with the
\* column element by element
RowsWithZip(df, zipcode) ==
    IF zipcode.tag = "List"
    THEN {r \in Range(df.index) :
            df.data["zipcode"][r] = Text(zipcode.val[Pos(df.index, r)])}
    ELSE {r \in Range(df.index) :
            ~isnull(zipcode) /\ df.data["zipcode"][r] = zipcode}

\* any value of the zip group, frequent or not
SearchAnyValue(df, column, zipcode) ==
    IF LengthsDiffer(df, zipcode) THEN {Raised("ValueError")}
    ELSE IF Unhashable(df, column, RowsWithZip(df, zipcode))
    THEN {Raised("TypeError")}
    ELSE IF ValuesIn(df, column, RowsWithZip(df, zipcode)) = {}
    THEN {Returned(NaN)}
    ELSE {Returned(v) : v \in ValuesIn(df, column, RowsWithZip(df, zipcode))}

\* the ways search_similar_zip can end: it returns index[0] of the value
\* counts of `column` over the rows with this zipcode, or None (a null cell
\* once stored) on the IndexError of an empty count; the ValueError of the
\* comparison and the TypeError of counting a list are not caught
search_similar_zip(df, column, zipcode) ==
    IF LengthsDiffer(df, zipcode) THEN {Raised("ValueError")}
    ELSE IF Unhashable(df, column, RowsWithZip(df, zipcode))
    THEN {Raised("TypeError")}
    ELSE IF TopValues(df, column, RowsWithZip(df, zipcode)) = {}
    THEN {Returned(NaN)}
    ELSE {Returned(v) : v \in TopValues(df, column, RowsWithZip(df, zipcode))}

\* the loop of get_mode_by_zip over the null rows found before it started,
\* each looked up in the table as updated so far: the ways it can end. An
\* exception of a lookup leaves the loop with the rows imputed so far.
RECURSIVE ImputeRows(_, _, _)
ImputeRows(df, column, rows) ==
    IF rows = <<>> THEN {Run(NoError, df)}
    ELSE UNION {IF out.err # NoError THEN {Run(out.err, df)}
                ELSE ImputeRows(SetCell(df, Head(rows), column, out.ret),
                                column, Tail(rows)) :
                    out \in search_similar_zip(df, column,
                                df.data["zipcode"][Head(rows)])}

\* get_mode_by_zip mutates the table it is given and returns that object;
\* selecting a column the table lacks is a KeyError
get_mode_by_zip(df, column) ==
    IF ~HasColumn(df, column) \/ ~HasColumn(df, "zipcode")
    THEN {Outcome("KeyError", df, NoValue)}
    ELSE {Outcome(run.err, run.df, IF run.err = NoError THEN run.df ELSE NoValue) :
            run \in ImputeRows(df, column,
                    SelectSeq(df.index, LAMBDA i : isnull(df.data[column][i])))}

\* a number cell of an object column is a Python int when it is whole (the
\* counts get_mode stores are), a float otherwise
IntegerCell(x) == x.tag = "Num" /\ x.val[2] = 1

\* lib.infer_dtype(values, skipna=True) of the cells V of an object array,
\* nulls left out
inferred_type(V) ==
    IF V = {} THEN "empty"
    ELSE IF \A x \in V : x.tag = "Text" THEN "string"
    ELSE IF \A x \in V : IntegerCell(x) THEN "integer"
    ELSE IF \A x \in V : x.tag = "Num" /\ ~IntegerCell(x) THEN "floating"
    ELSE IF \A x \in V : x.tag = "Num" THEN "mixed-integer-float"
    ELSE IF \E x \in V : IntegerCell(x) THEN "mixed-integer"
    ELSE "mixed"

\* Index.holds_integer() of an object index over the values V
holds_integer(V) == inferred_type(V) \in {"integer", "mixed-integer"}

\* whether [0] on value_counts() of the column is a lookup of the label 0
\* and not a position: the index is numeric (the column's dtype is, or the
\* values counted are all numbers, which pandas makes a numeric index), or
\* it is an object index that holds an integer beside other values
NumericIndex(df, c) ==
    LET V == ValuesIn(df, c, Range(df.index))
    IN  \/ df.dtypes[c] = "number"
        \/ V # {} /\ \A x \in V : x.tag = "Num"
        \/ holds_integer(V)

\* dataframe[column].value_counts()[0]: as a label, the count of the value
\* 0, a KeyError when no cell holds it (a numeric column of nulls only
\* included); as a position, the entry at position 0 is the highest COUNT,
\* and an empty count is an IndexError
ValueCountsAt0(df, c) ==
    LET rows == Range(df.index)
    IN  IF Unhashable(df, c, rows) THEN Raised("TypeError")
        ELSE IF NumericIndex(df, c)
        THEN IF Num(0) \in ValuesIn(df, c, rows)
             THEN Returned(Num(Count(df, c, rows, Num(0))))
             ELSE Raised("KeyError")
        ELSE IF ValuesIn(df, c, rows) = {} THEN Raised("IndexError")
        ELSE Returned(Num(TopCount(df, c, rows)))

\* get_mode returns the column with its nulls filled by value_counts()[0]
get_mode(df, column) ==
    IF ~HasColumn(df, column) THEN Raised("KeyError")
    ELSE LET first == ValueCountsAt0(df, column)
         IN  IF first.err # NoError THEN first
             ELSE Returned(fillna(Column(df, column), first.ret))

InitGetModeByZip ==
    /\ pc = "call_get_mode_by_zip"
    /\ \E index \in Indexes(MaxZipRows) :
          /\ index # <<>>
          /\ \E market \in [Range(index) -> {NaN, Text(<<"A">>), Text(<<"B">>)}],
                zipcode \in [Range(index) -> {NaN, Text(<<"Z", "1">>), Text(<<"Z", "2">>)}] :
                dataframe = DataFrame(index, <<"market", "zipcode">>,
                    [c \in {"market", "zipcode"} |->
                        IF c = "market" THEN market ELSE zipcode])
    /\ dataframe0 = dataframe
    /\ args = [column |-> "market"]
    /\ ret = NoValue
    /\ err = NoError

CallGetModeByZip ==
    /\ pc = "call_get_mode_by_zip"
    /\ \E out \in get_mode_by_zip(dataframe, args.column) :
          /\ dataframe' = out.df
          /\ ret' = out.ret
          /\ err' = out.err
    /\ pc' = "done"
    /\ UNCHANGED <<args, dataframe0>>

SpecGetModeByZip == InitGetModeByZip /\ [][CallGetModeByZip]_vars

\* the rows of df other than r that share r's zipcode (a null zipcode is
\* shared with nobody) and hold a value in column c
Peers(df, c, r) ==
    {q \in Range(df.index) \ {r} :
        /\ ~isnull(df.data["zipcode"][r])
        /\ df.data["zipcode"][q] = df.data["zipcode"][r]
        /\ ~isnull(df.data[c][q])}

\* how many peers of r hold v in column c
PeerCount(df, c, r, v) == Cardinality({q \in Peers(df, c, r) : df.data[c][q] = v})

\* C1: after get_mode_by_zip(table, column), every row that had a null in
\* the column and a peer with the same zipcode and a value holds a value
\* whose frequency among the input's peers is maximal, although the lookups
\* read the table as the loop updates it.
C1_ZipModeOfInput ==
    (pc = "done" /\ "column" \in DOMAIN args /\ HasColumn(dataframe0, "zipcode")) =>
        LET c == args.column
        IN  \A r \in Range(dataframe0.index) :
                (isnull(dataframe0.data[c][r]) /\ Peers(dataframe0, c, r) # {}) =>
                    /\ ~isnull(ret.data[c][r])
                    /\ \E q \in Peers(dataframe0, c, r) :
                          dataframe0.data[c][q] = ret.data[c][r]
                    /\ \A q \in Peers(dataframe0, c, r) :
                          PeerCount(dataframe0, c, r, dataframe0.data[c][q])
                              <= PeerCount(dataframe0, c, r, ret.data[c][r])

\* the zip group [A, A, null, B] with its null resolved to A
C1_Witness ==
    /\ pc = "done" /\ "column" \in DOMAIN args /\ HasColumn(dataframe0, "zipcode")
    /\ dataframe0.data["zipcode"] = <<Text(<<"Z", "1">>), Text(<<"Z", "1">>), Text(<<"Z", "1">>), Text(<<"Z", "1">>)>>
    /\ dataframe0.data["market"] = <<Text(<<"A">>), Text(<<"A">>), NaN, Text(<<"B">>)>>
    /\ ret.data["market"] = <<Text(<<"A">>), Text(<<"A">>), Text(<<"A">>), Text(<<"B">>)>>

\* two nulls of one zip group whose values tie: the second lookup reads the
\* value the first one stored
C1_WitnessInPlace ==
    /\ pc = "done" /\ "column" \in DOMAIN args /\ HasColumn(dataframe0, "zipcode")
    /\ dataframe0.data["zipcode"] = <<Text(<<"Z", "1">>), Text(<<"Z", "1">>), Text(<<"Z", "1">>), Text(<<"Z", "1">>)>>
    /\ dataframe0.data["market"] = <<Text(<<"A">>), NaN, NaN, Text(<<"B">>)>>
    /\ ret.data["market"] = <<Text(<<"A">>), Text(<<"B">>), Text(<<"B">>), Text(<<"B">>)>>

InitGetMode ==
    /\ pc = "call_get_mode"
    /\ \E index \in Indexes(MaxModeRows) :
          dataframe \in Tables(index, <<"property_type">>,
                            {NaN, Text(<<"A">>), Text(<<"B">>)})
    /\ dataframe0 = dataframe
    /\ args = [column |-> "property_type"]
    /\ ret = NoValue
    /\ err = NoError

CallGetMode ==
    /\ pc = "call_get_mode"
    /\ LET out == get_mode(dataframe, args.column)
       IN  ret' = out.ret /\ err' = out.err
    /\ pc' = "done"
    /\ UNCHANGED <<args, dataframe, dataframe0>>

SpecGetMode == InitGetMode /\ [][CallGetMode]_vars

\* C3: get_mode(table, column) returns the column with every null replaced
\* by a most frequent non-null value of the column (a value of the column,
\* not a count) and every non-null cell unchanged.
C3_GetModeFillsValue ==
    (/\ pc = "done" /\ args = [column |-> "property_type"]
     /\ ValuesIn(dataframe0, "property_type", Range(dataframe0.index)) # {}) =>
        /\ err = NoError
        /\ \A r \in Range(dataframe0.index) :
              IF isnull(dataframe0.data["property_type"][r])
              THEN ret.values[r] \in TopValues(dataframe0, "property_type", Range(dataframe0.index))
              ELSE ret.values[r] = dataframe0.data["property_type"][r]

-----------------------------------------------------------------------------
(* handle_categorical *)

MaxCatRows == 2

Missing == Text(<<"m", "i", "s", "s", "i", "n", "g">>)

\* the loop over property_type and host_response_time
RECURSIVE FillModes(_, _)
FillModes(df, columns) ==
    IF columns = <<>> THEN Returned(df)
    ELSE LET out == get_mode(df, Head(columns))
         IN  IF out.err # NoError THEN out
             ELSE FillModes(SetColumn(df, Head(columns), out.ret), Tail(columns))

\* the loop over market, host_neighbourhood and city: its possible outcomes
RECURSIVE ZipModes(_, _)
ZipModes(df, columns) ==
    IF columns = <<>> THEN {Returned(df)}
    ELSE UNION {IF out.err # NoError THEN {Raised(out.err)}
                ELSE ZipModes(out.ret, Tail(columns)) :
                    out \in get_mode_by_zip(df, Head(columns))}

NullRows(df, c) == {r \in Range(df.index) : isnull(df.data[c][r])}

\* the two final drops: rows with a null host_neighbourhood, then rows with
\* a null city; rows with a null market are not looked at
DropUnresolved(df) ==
    LET d == DropRows(df, NullRows(df, "host_neighbourhood"))
    IN  DropRows(d, NullRows(d, "city"))

\* handle_categorical rebinds its parameter to the copy the first drop
\* returns, so the caller's table is not touched
handle_categorical(df) ==
    IF ~HasColumn(df, "zipcode") THEN {Raised("KeyError")}
    ELSE LET d1 == DropRows(df, NullRows(df, "zipcode"))
    IN  IF ~({"host_location", "neighbourhood"} \subseteq Range(d1.columns))
        THEN {Raised("KeyError")}
    ELSE LET d2 == DropColumns(d1, {"host_location", "neighbourhood"})
    IN  IF ~HasColumn(d2, "summary") THEN {Raised("KeyError")}
    ELSE LET d3 == SetColumn(d2, "summary", AssignWhereNull(Column(d2, "summary"), Missing))
             modes == FillModes(d3, <<"property_type", "host_response_time">>)
    IN  IF modes.err # NoError THEN {modes}
    ELSE {IF out.err # NoError THEN out ELSE Returned(DropUnresolved(out.ret)) :
            out \in ZipModes(modes.ret, <<"market", "host_neighbourhood", "city">>)}

CategoricalColumns ==
    <<"zipcode", "host_location", "neighbourhood", "summary", "property_type",
      "host_response_time", "market", "host_neighbourhood", "city">>

\* tables with every column handle_categorical reads; zipcode, market,
\* host_neighbourhood and city vary
InitHandleCategorical ==
    /\ pc = "call_handle_categorical"
    /\ \E index \in Indexes(MaxCatRows) \ {<<>>} :
       \E zipcode \in [Range(index) -> {NaN, Text(<<"Z", "1">>), Text(<<"Z", "2">>)}],
          market \in [Range(index) -> {NaN, Text(<<"A">>)}],
          host_neighbourhood \in [Range(index) -> {NaN, Text(<<"A">>)}],
          city \in [Range(index) -> {NaN, Text(<<"A">>)}] :
            dataframe = DataFrame(index, CategoricalColumns,
                [c \in Range(CategoricalColumns) |->
                    CASE c = "zipcode" -> zipcode
                      [] c = "market" -> market
                      [] c = "host_neighbourhood" -> host_neighbourhood
                      [] c = "city" -> city
                      [] c = "summary" -> [r \in Range(index) |-> NaN]
                      [] OTHER -> [r \in Range(index) |-> Text(<<"v">>)]])
    /\ dataframe0 = dataframe
    /\ args = [function |-> "handle_categorical"]
    /\ ret = NoValue
    /\ err = NoError

CallHandleCategorical ==
    /\ pc = "call_handle_categorical"
    /\ \E out \in handle_categorical(dataframe) :
          ret' = out.ret /\ err' = out.err
    /\ pc' = "done"
    /\ UNCHANGED <<args, dataframe, dataframe0>>

SpecHandleCategorical == InitHandleCategorical /\ [][CallHandleCategorical]_vars

\* row r holds a null in column c that the zip-scoped imputation cannot
\* resolve: no other row with r's zipcode has a value in c
Unresolvable(df, c, r) == isnull(df.data[c][r]) /\ Peers(df, c, r) = {}

ReturnedFromCategorical ==
    pc = "done" /\ args = [function |-> "handle_categorical"] /\ err = NoError

\* C2: for each of market, host_neighbourhood and city, a row with a null in
\* the column and no other row of its zipcode holding a value in it is
\* absent from the table handle_categorical returns; no unresolved null in
\* a zip-imputed column is retained.
C2_UnresolvedDroppedAllThree ==
    ReturnedFromCategorical =>
        \A c \in {"market", "host_neighbourhood", "city"} :
            \A r \in Range(dataframe0.index) :
                Unresolvable(dataframe0, c, r) => r \notin Range(ret.index)

\* what the code does: for host_neighbourhood and city, a row with an
\* unresolvable null in the column is absent from the returned table and no
\* returned row holds a null in either column; a row whose only unresolvable
\* null is in market is returned with market still null
UnresolvedDroppedNeighbourhoodCity ==
    ReturnedFromCategorical =>
        /\ \A c \in {"host_neighbourhood", "city"} :
              /\ \A r \in Range(dataframe0.index) :
                    Unresolvable(dataframe0, c, r) => r \notin Range(ret.index)
              /\ \A r \in Range(ret.index) : ~isnull(ret.data[c][r])
        /\ \A r \in Range(dataframe0.index) :
              (/\ ~isnull(dataframe0.data["zipcode"][r])
               /\ Unresolvable(dataframe0, "market", r)
               /\ ~Unresolvable(dataframe0, "host_neighbourhood", r)
               /\ ~Unresolvable(dataframe0, "city", r)) =>
                  r \in Range(ret.index) /\ isnull(ret.data["market"][r])

\* a returned table that lost a row for its unresolvable city and kept the
\* other row, whose market is an unresolvable null
UnresolvedMarketRetained ==
    /\ ReturnedFromCategorical
    /\ dataframe0.index = <<1, 2>>
    /\ Unresolvable(dataframe0, "city", 1)
    /\ ~isnull(dataframe0.data["host_neighbourhood"][1])
    /\ Unresolvable(dataframe0, "market", 2)
    /\ ret.index = <<2>>
    /\ isnull(ret.data["market"][2])

-----------------------------------------------------------------------------
(* money_to_numeric, percentage_to_numeric, pd.to_numeric *)

\* x.replace(ch, "")
Replace(s, ch) == SelectSeq(s, LAMBDA x : x # ch)

\* x[1:]
Slice1(s) == IF s = <<>> THEN <<>> ELSE Tail(s)

\* series.apply(lambda x: x[1:].replace(",", "")), cell by cell in row
\* order: slicing a cell that is a float nan or a number is a TypeError, a
\* list is sliced and has no replace (AttributeError); a series without rows
\* is returned as it is
money_to_numeric(series) ==
    LET bad == SelectSeq(series.index, LAMBDA r : series.values[r].tag # "Text")
    IN  IF series.index = <<>> THEN Returned(series)
        ELSE IF bad # <<>>
        THEN Raised(IF series.values[Head(bad)].tag = "List"
                    THEN "AttributeError" ELSE "TypeError")
        ELSE Returned(Series(series.index, "object",
                [r \in Range(series.index) |->
                    Text(Replace(Slice1(series.values[r].val), ","))]))

\* the non-null cells of a series
NonNull(series) ==
    {series.values[r] : r \in {q \in Range(series.index) : ~isnull(series.values[q])}}

\* series.str.replace("%", ""): the .str accessor exists on an object series
\* whose values infer as strings, as mixed or as empty (AttributeError
\* otherwise) and gives NaN for a cell that is no str
percentage_to_numeric(series) ==
    IF \/ series.dtype # "object"
       \/ inferred_type(NonNull(series)) \notin
              {"string", "empty", "mixed", "mixed-integer"}
    THEN Raised("AttributeError")
    ELSE Returned(Series(series.index, "object",
            [r \in Range(series.index) |->
                IF series.values[r].tag = "Text"
                THEN Text(Replace(series.values[r].val, "%")) ELSE NaN]))

Digits == <<"0", "1", "2", "3", "4", "5", "6", "7", "8", "9">>

DigitValue(ch) == (CHOOSE i \in DOMAIN Digits : Digits[i] = ch) - 1

RECURSIVE Decimal(_)
Decimal(s) ==
    IF s = <<>> THEN 0
    ELSE 10 * Decimal(SubSeq(s, 1, Len(s) - 1)) + DigitValue(s[Len(s)])

RECURSIVE Pow10(_)
Pow10(n) == IF n = 0 THEN 1 ELSE 10 * Pow10(n - 1)

\* the strings of digits with at most one decimal point that pd.to_numeric
\* parses (signs, exponents and blanks are not among the characters used)
Parseable(s) ==
    /\ \A i \in DOMAIN s : s[i] = "." \/ s[i] \in Range(Digits)
    /\ Cardinality({i \in DOMAIN s : s[i] = "."}) <= 1
    /\ \E i \in DOMAIN s : s[i] \in Range(Digits)

ParseNumber(s) ==
    LET points == {i \in DOMAIN s : s[i] = "."}
        places == IF points = {} THEN 0 ELSE Len(s) - (CHOOSE i \in points : TRUE)
    IN  Rat(Decimal(Replace(s, ".")), Pow10(places))

\* pd.to_numeric(series), cell by cell in row order: numbers and nulls
\* stay, a cell of length 0 (the empty string, the empty list) becomes NaN,
\* any other string is parsed or is a ValueError, any other list is a
\* TypeError; the result is a numeric series
to_numeric(series) ==
    LET bad == SelectSeq(series.index, LAMBDA r :
                  /\ series.values[r].tag \in {"Text", "List"}
                  /\ series.values[r].val # <<>>
                  /\ \/ series.values[r].tag = "List"
                     \/ ~Parseable(series.values[r].val))
    IN  IF bad # <<>>
        THEN Raised(IF series.values[Head(bad)].tag = "List"
                    THEN "TypeError" ELSE "ValueError")
        ELSE Returned(Series(series.index, "number",
                [r \in Range(series.index) |->
                    IF series.values[r].tag \notin {"Text", "List"}
                    THEN series.values[r]
                    ELSE IF series.values[r].val = <<>> THEN NaN
                    ELSE ParseNumber(series.values[r].val)]))

-----------------------------------------------------------------------------
(* handle_repetitive_data, clean_data *)

MaxCleanRows == 2

money_to_numeric_cols == <<"price", "extra_people">>

perc_to_numeric_cols == <<"host_response_rate", "host_acceptance_rate">>

columns_to_drop ==
    {"experiences_offered", "host_listings_count",
     "neighbourhood_group_cleansed", "jurisdiction_names"}

\* dataframe.drop_duplicates(inplace=True): of rows equal in every column
\* the first stays; a table without rows or without columns is empty and is
\* left as it is; the cells are hashed, so a list among them is a TypeError
\* that leaves the table as it is
drop_duplicates(df) ==
    IF df.index = <<>> \/ df.columns = <<>> THEN Run(NoError, df)
    ELSE IF \E c \in Range(df.columns) : Unhashable(df, c, Range(df.index))
    THEN Run("TypeError", df)
    ELSE Run(NoError,
            DropRows(df, {r \in Range(df.index) :
                \E q \in Range(df.index) :
                    /\ Pos(df.index, q) < Pos(df.index, r)
                    /\ \A c \in Range(df.columns) : df.data[c][q] = df.data[c][r]}))

\* a column already absent is skipped (KeyError caught); both steps change
\* the table they are given, and the TypeError of drop_duplicates is not
\* caught
handle_repetitive_data(df) ==
    drop_duplicates(DropColumns(df, columns_to_drop \cap Range(df.columns)))

\* one of the two conversion loops of clean_data: an absent column is
\* skipped (KeyError caught), any other exception leaves the loop
RECURSIVE Normalize(_, _, _)
Normalize(df, columns, kind) ==
    IF columns = <<>> THEN Run(NoError, df)
    ELSE IF ~HasColumn(df, Head(columns)) THEN Normalize(df, Tail(columns), kind)
    ELSE LET stripped == IF kind = "money"
                         THEN money_to_numeric(Column(df, Head(columns)))
                         ELSE percentage_to_numeric(Column(df, Head(columns)))
             parsed == IF stripped.err # NoError THEN stripped
                       ELSE to_numeric(stripped.ret)
         IN  IF parsed.err # NoError THEN Run(parsed.err, df)
             ELSE Normalize(SetColumn(df, Head(columns), parsed.ret),
                            Tail(columns), kind)

\* the normalization step of clean_data: the loop over the currency columns,
\* then the loop over the percentage columns, on the caller's table
normalize_columns(df) ==
    LET money == Normalize(df, money_to_numeric_cols, "money")
    IN  IF money.err # NoError THEN money
        ELSE Normalize(money.df, perc_to_numeric_cols, "percentage")

\* clean_data after its normalization step: the possible outcomes
after_normalization(df) ==
    LET pruned == handle_repetitive_data(df)
        d == handle_numeric(pruned.df, "median")
    IN  IF pruned.err # NoError THEN {Outcome(pruned.err, pruned.df, NoValue)}
        ELSE {Outcome(out.err, d, out.ret) : out \in handle_categorical(d)}

\* the possible outcomes of clean_data(df): the exception, the caller's
\* table as the call leaves it, and the table returned
clean_data(df) ==
    LET normalized == normalize_columns(df)
    IN  IF normalized.err # NoError
        THEN {Outcome(normalized.err, normalized.df, NoValue)}
        ELSE after_normalization(normalized.df)

RawColumns ==
    <<"price", "host_response_rate", "experiences_offered", "beds", "zipcode",
      "host_location", "neighbourhood", "summary", "property_type",
      "host_response_time", "market", "host_neighbourhood", "city">>

\* raw tables: price, host_response_rate and host_location may have been
\* pruned before the call; price, beds, market and property_type vary
InitCleanData ==
    /\ pc = "call_clean_data"
    /\ \E index \in Indexes(MaxCleanRows) \ {<<>>} :
       \E pruned \in SUBSET {"price", "host_response_rate", "host_location"} :
       \E price \in [Range(index) ->
                        {Text(<<"$", "1", ",", "0", "0", "0">>), Text(<<"$", "5">>)}],
          beds \in [Range(index) -> {NaN, Num(1)}],
          market \in [Range(index) -> {NaN, Text(<<"A">>)}],
          property_type \in [Range(index) -> {NaN, Text(<<"A">>)}] :
            dataframe = DropColumns(
                DataFrame(index, RawColumns,
                    [c \in Range(RawColumns) |->
                        CASE c = "price" -> price
                          [] c = "beds" -> beds
                          [] c = "market" -> market
                          [] c = "property_type" -> property_type
                          [] c = "host_response_rate" ->
                                [r \in Range(index) |-> Text(<<"9", "0", "%">>)]
                          [] c = "summary" -> [r \in Range(index) |-> NaN]
                          [] OTHER -> [r \in Range(index) |-> Text(<<"v">>)]]),
                pruned)
    /\ dataframe0 = dataframe
    /\ args = [function |-> "clean_data"]
    /\ ret = NoValue
    /\ err = NoError

\* the caller passes its raw table to clean_data
CallCleanData ==
    /\ pc = "call_clean_data"
    /\ \E out \in clean_data(dataframe) :
          /\ dataframe' = out.df
          /\ ret' = out.ret
          /\ err' = out.err
          /\ pc' = IF out.err = NoError THEN "returned" ELSE "failed"
    /\ UNCHANGED <<args, dataframe0>>

\* the caller passes the table clean_data returned to clean_data again
CallCleanDataAgain ==
    /\ pc = "returned"
    /\ \E out \in clean_data(ret) :
          /\ dataframe0' = ret
          /\ dataframe' = out.df
          /\ ret' = out.ret
          /\ err' = out.err
          /\ pc' = "done_again"
    /\ UNCHANGED args

SpecCleanData == InitCleanData /\ [][CallCleanData \/ CallCleanDataAgain]_vars

\* C4: clean_data on a table that clean_data returned completes without
\* error and returns a table equal to its input.
C4_CleanDataIdempotent ==
    pc = "done_again" => (err = NoError /\ ret = dataframe0)

\* C5: when clean_data fails, no table is returned and the caller's table
\* has the columns, rows and cells it had before the call.
C5_FailedRunLeavesInput ==
    pc = "failed" => (ret = NoValue /\ dataframe = dataframe0)

\* clean_data returned a row whose market is a null that no other row of its
\* zipcode could resolve
CleanDataRetainsUnresolvedMarket ==
    /\ pc = "returned"
    /\ \E r \in Range(ret.index) :
          isnull(ret.data["market"][r]) /\ Unresolvable(dataframe0, "market", r)

-----------------------------------------------------------------------------
(* split_by_pattern, get_df_from_column *)

MaxExpandRows == 2

\* the characters of the strings used, in the order of their code points
Chars ==
    <<" ", ",", ".", "0", "1", "2", "3", "4", "5", "6", "7", "8", "9", ":",
    "T", "V", "[", "]", "_", "a", "b", "c", "d", "e", "f", "g", "h", "i",
    "j", "k", "l", "m", "n", "o", "p", "q", "r", "s", "t", "u", "v", "w",
    "x", "y", "z", "{", "}">>

Code(ch) == CHOOSE i \in DOMAIN Chars : Chars[i] = ch

\* s < t for Python strings
RECURSIVE StrLess(_, _)
StrLess(s, t) ==
    IF t = <<>> THEN FALSE
    ELSE IF s = <<>> THEN TRUE
    ELSE IF s[1] # t[1] THEN Code(s[1]) < Code(t[1])
    ELSE StrLess(Tail(s), Tail(t))

\* sorted(S) for a set of strings
RECURSIVE Sorted(_)
Sorted(S) ==
    IF S = {} THEN <<>>
    ELSE LET least == CHOOSE x \in S : \A y \in S : x = y \/ StrLess(x, y)
         IN  <<least>> \o Sorted(S \ {least})

\* string.split(","): the pieces between the commas, empty pieces included
RECURSIVE Split(_)
Split(s) ==
    IF \A i \in DOMAIN s : s[i] # "," THEN <<s>>
    ELSE LET comma == CHOOSE i \in DOMAIN s :
                        s[i] = "," /\ \A j \in 1..(i - 1) : s[j] # ","
         IN  <<SubSeq(s, 1, comma - 1)>> \o Split(SubSeq(s, comma + 1, Len(s)))

\* re.sub(pattern, "", string).split(","), for a pattern that matches each
\* character of the set `pattern`
split_by_pattern(string, pattern) ==
    Split(SelectSeq(string, LAMBDA ch : ch \notin pattern))

Amenities ==
    <<"a", "m", "e", "n", "i", "t", "i", "e", "s">>

EmptyToken == <<>>

TranslationMissing49 ==
    <<"t", "r", "a", "n", "s", "l", "a", "t", "i", "o", "n", " ", "m", "i",
    "s", "s", "i", "n", "g", ":", " ", "e", "n", ".", "h", "o", "s", "t",
    "i", "n", "g", "_", "a", "m", "e", "n", "i", "t", "y", "_", "4", "9">>

TranslationMissing50 ==
    <<"t", "r", "a", "n", "s", "l", "a", "t", "i", "o", "n", " ", "m", "i",
    "s", "s", "i", "n", "g", ":", " ", "e", "n", ".", "h", "o", "s", "t",
    "i", "n", "g", "_", "a", "m", "e", "n", "i", "t", "y", "_", "5", "0">>

\* column_to_drop, in the order of the list
column_to_drop == <<EmptyToken, TranslationMissing49, TranslationMissing50>>

\* "number_of_{}".format(column)
NumberOf(column) == <<"n", "u", "m", "b", "e", "r", "_", "o", "f", "_">> \o column

\* the loop over values_set: each value becomes a column of 0/1, read from
\* the column named `column` as it then is; `value in x` on a cell that is
\* no list (an int stored by an earlier pass) is a TypeError
RECURSIVE AddIndicators(_, _, _)
AddIndicators(df, column, values) ==
    IF values = <<>> THEN Returned(df)
    ELSE IF \E r \in Range(df.index) : df.data[column][r].tag # "List"
    THEN Raised("TypeError")
    ELSE AddIndicators(
            SetColumn(df, Head(values),
                Series(df.index, "number",
                    [r \in Range(df.index) |->
                        IF Head(values) \in Range(df.data[column][r].val)
                        THEN Num(1) ELSE Num(0)])),
            column, Tail(values))

\* df.drop(labels, axis=1, inplace=True): a KeyError, and nothing dropped,
\* when a label is no column
DropLabels(df, labels) ==
    IF labels \subseteq Range(df.columns) THEN Returned(DropColumns(df, labels))
    ELSE Raised("KeyError")

\* the amenities branch: drop the three labels, and on a KeyError drop the
\* first of them alone (its KeyError is not caught)
DropDenylist(df) ==
    LET all == DropLabels(df, Range(column_to_drop))
    IN  IF all.err = NoError THEN all ELSE DropLabels(df, {column_to_drop[1]})

get_df_from_column(df, column, pattern) ==
    IF ~HasColumn(df, column) THEN Raised("KeyError")
    ELSE IF \E r \in Range(df.index) : df.data[column][r].tag # "Text"
    THEN Raised("TypeError")
    ELSE
    LET lists == [r \in Range(df.index) |->
                    List(split_by_pattern(df.data[column][r].val, pattern))]
        df_column == Frame(df.index, <<column>>, [c \in {column} |-> lists],
                        [c \in {column} |->
                            IF df.index = <<>> THEN df.dtypes[column] ELSE "object"])
        values_set == Sorted(UNION {Range(lists[r].val) : r \in Range(df.index)})
        indicators == AddIndicators(df_column, column, values_set)
    IN  IF indicators.err # NoError THEN indicators
        ELSE IF \E r \in Range(df.index) : indicators.ret.data[column][r].tag # "List"
        THEN Raised("TypeError")
        ELSE
        LET counted == SetColumn(indicators.ret, NumberOf(column),
                          Series(df.index,
                              IF df.index = <<>> THEN indicators.ret.dtypes[column]
                              ELSE "number",
                              [r \in Range(df.index) |->
                                  Num(Len(indicators.ret.data[column][r].val))]))
        IN  IF column = Amenities THEN DropDenylist(counted) ELSE Returned(counted)

\* ",".join(tokens)
RECURSIVE Join(_)
Join(tokens) ==
    IF Len(tokens) = 1 THEN tokens[1]
    ELSE tokens[1] \o <<",">> \o Join(Tail(tokens))

\* the column expanded and the tokens its cells are made of
ExpandCases ==
    {[column |-> <<"v">>, tokens |-> {<<"a">>, <<"b">>, <<"c">>, <<"v">>}],
     [column |-> Amenities,
      tokens |-> {EmptyToken, TranslationMissing49, TranslationMissing50, <<"T", "V">>}]}

\* tables of one text column whose cells list one or two tokens, written
\* bare ("a,b") or in braces ("{a,b}"); the pattern removes the braces
InitGetDfFromColumn ==
    /\ pc = "call_get_df_from_column"
    /\ \E case \in ExpandCases, braces \in BOOLEAN :
       \E index \in Indexes(MaxExpandRows) \ {<<>>} :
       \E lists \in [Range(index) -> [1..1 -> case.tokens] \cup [1..2 -> case.tokens]] :
          /\ dataframe = DataFrame(index, <<case.column>>,
                [c \in {case.column} |->
                    [r \in Range(index) |->
                        Text(IF braces THEN <<"{">> \o Join(lists[r]) \o <<"}">>
                             ELSE Join(lists[r]))]])
          /\ args = [column |-> case.column, pattern |-> {"{", "}"}]
    /\ dataframe0 = dataframe
    /\ ret = NoValue
    /\ err = NoError

CallGetDfFromColumn ==
    /\ pc = "call_get_df_from_column"
    /\ LET out == get_df_from_column(dataframe, args.column, args.pattern)
       IN  ret' = out.ret /\ err' = out.err
    /\ pc' = "done"
    /\ UNCHANGED <<args, dataframe, dataframe0>>

SpecGetDfFromColumn == InitGetDfFromColumn /\ [][CallGetDfFromColumn]_vars

\* the token list of row r of the input, parsed as the spec describes
TokensOf(r) ==
    split_by_pattern(dataframe0.data[args.column][r].val, args.pattern)

AllTokens == UNION {Range(TokensOf(r)) : r \in Range(dataframe0.index)}

\* the result holds, for every token of the data, a 0/1 column marking the
\* rows that list it, and the count column
IndicatorsCorrect ==
    /\ err = NoError
    /\ \A token \in AllTokens :
          /\ HasColumn(ret, token)
          /\ \A r \in Range(dataframe0.index) :
                ret.data[token][r] = IF token \in Range(TokensOf(r)) THEN Num(1) ELSE Num(0)
    /\ HasColumn(ret, NumberOf(args.column))
    /\ \A r \in Range(dataframe0.index) :
          ret.data[NumberOf(args.column)][r] = Num(Len(TokensOf(r)))
    /\ SelectSeq(ret.columns, LAMBDA c : c \in AllTokens) = Sorted(AllTokens)

ExpandedOther == pc = "done" /\ "pattern" \in DOMAIN args /\ args.column # Amenities

\* C9: for a column other than amenities, get_df_from_column returns one
\* indicator column per distinct token, in sorted token order and 1 exactly
\* where the row lists the token, plus the count column; for every token
\* set, one that holds the column's own name included.
C9_IndicatorsForEveryTokenSet ==
    ExpandedOther => IndicatorsCorrect

\* the same, for the token sets that do not hold the column's own name
ExpandCorrectWithoutNameClash ==
    (ExpandedOther /\ args.column \notin AllTokens) => IndicatorsCorrect

\* rows "a,b" and "b,c" expanded to a = [1,0], b = [1,1], c = [0,1] and
\* the count [2,2]
ExpandExample ==
    /\ ExpandedOther
    /\ dataframe0.data[args.column] =
          <<Text(<<"a", ",", "b">>), Text(<<"b", ",", "c">>)>>
    /\ ret.columns = <<<<"v">>, <<"a">>, <<"b">>, <<"c">>, NumberOf(<<"v">>)>>
    /\ ret.data[<<"a">>] = <<Num(1), Num(0)>>
    /\ ret.data[<<"b">>] = <<Num(1), Num(1)>>
    /\ ret.data[<<"c">>] = <<Num(0), Num(1)>>
    /\ ret.data[NumberOf(<<"v">>)] = <<Num(2), Num(2)>>

\* C10: for the amenities column, whichever of the three denylist tokens
\* occur in the data, get_df_from_column completes without error and
\* returns a table with no column named by a denylist token.
C10_DenylistAlwaysRemoved ==
    (pc = "done" /\ "pattern" \in DOMAIN args /\ args.column = Amenities) =>
        /\ err = NoError
        /\ \A token \in Range(column_to_drop) : ~HasColumn(ret, token)

\* what the code does: it succeeds exactly when the empty token occurs, and
\* then a denylist token stays a column exactly when one of the two
\* translation tokens occurs without the other
DenylistOutcome ==
    (pc = "done" /\ "pattern" \in DOMAIN args /\ args.column = Amenities) =>
        /\ (err = NoError) <=> (EmptyToken \in AllTokens)
        /\ err = NoError =>
              ((\E token \in Range(column_to_drop) : HasColumn(ret, token))
                  <=> ((TranslationMissing49 \in AllTokens)
                          # (TranslationMissing50 \in AllTokens)))

-----------------------------------------------------------------------------
(* clean_data, step by step: the normalization step *)

MaxNormRows == 2

\* raw tables whose price and host_response_rate cells are formatted text,
\* null, or text that is no number; either column may have been pruned
InitNormalize ==
    /\ pc = "call_clean_data_normalize"
    /\ \E index \in Indexes(MaxNormRows) \ {<<>>} :
       \E pruned \in SUBSET {"price", "host_response_rate"} :
       \E price \in [Range(index) ->
                        {Text(<<"$", "1", ",", "0", "0", "0">>), Text(<<"$", "5">>),
                         Text(<<"$", "x">>), NaN}],
          host_response_rate \in [Range(index) ->
                        {Text(<<"9", "0", "%">>), Text(<<"x", "%">>), NaN}] :
            dataframe = DropColumns(
                DataFrame(index, RawColumns,
                    [c \in Range(RawColumns) |->
                        CASE c = "price" -> price
                          [] c = "host_response_rate" -> host_response_rate
                          [] c = "beds" -> [r \in Range(index) |-> Num(1)]
                          [] c = "summary" -> [r \in Range(index) |-> NaN]
                          [] OTHER -> [r \in Range(index) |-> Text(<<"v">>)]]),
                pruned)
    /\ dataframe0 = dataframe
    /\ args = [function |-> "clean_data"]
    /\ ret = NoValue
    /\ err = NoError

\* lines 300-317 of clean_data: the two conversion loops
NormalizeColumns ==
    /\ pc = "call_clean_data_normalize"
    /\ LET run == normalize_columns(dataframe)
       IN  /\ dataframe' = run.df
           /\ err' = run.err
           /\ pc' = IF run.err = NoError THEN "normalized" ELSE "normalize_failed"
    /\ UNCHANGED <<args, dataframe0, ret>>

\* lines 319-326 of clean_data: the steps after the normalization
FinishCleanData ==
    /\ pc = "normalized"
    /\ \E out \in after_normalization(dataframe) :
          /\ dataframe' = out.df
          /\ ret' = out.ret
          /\ err' = out.err
          /\ pc' = IF out.err = NoError THEN "returned_after_steps" ELSE "failed_after_steps"
    /\ UNCHANGED <<args, dataframe0>>

SpecNormalize == InitNormalize /\ [][NormalizeColumns \/ FinishCleanData]_vars

NormalizedColumns == Range(money_to_numeric_cols) \cup Range(perc_to_numeric_cols)

\* a cell's text without currency symbol, thousands separators and percent
\* sign
Undecorated(s) == SelectSeq(s, LAMBDA ch : ch \notin {"$", ",", "%"})

\* a non-null cell that is no number once the decoration is stripped
NotConvertible(cell) ==
    cell.tag = "Text" /\ ~Parseable(Undecorated(cell.val))

\* C11: in the normalization step of clean_data a null cell of a currency or
\* percentage column stays null without error, a non-null cell becomes the
\* number left after stripping its decoration, the step fails only when a
\* non-null cell is not convertible, and an absent column is skipped.
C11_NormalizationSkipsNulls ==
    LET present == NormalizedColumns \cap Range(dataframe0.columns)
    IN  /\ pc = "normalize_failed" =>
              \E c \in present : \E r \in Range(dataframe0.index) :
                  NotConvertible(dataframe0.data[c][r])
        /\ pc = "normalized" =>
              /\ dataframe.columns = dataframe0.columns
              /\ \A c \in present : \A r \in Range(dataframe0.index) :
                    IF isnull(dataframe0.data[c][r])
                    THEN isnull(dataframe.data[c][r])
                    ELSE dataframe.data[c][r] =
                            ParseNumber(Undecorated(dataframe0.data[c][r].val))

\* the same for tables whose present currency columns hold no null and whose
\* present percentage columns hold a text in some row
NormalizationWithoutCurrencyNulls ==
    (/\ \A c \in Range(money_to_numeric_cols) \cap Range(dataframe0.columns) :
            \A r \in Range(dataframe0.index) : ~isnull(dataframe0.data[c][r])
     /\ \A c \in Range(perc_to_numeric_cols) \cap Range(dataframe0.columns) :
            \E r \in Range(dataframe0.index) : ~isnull(dataframe0.data[c][r]))
        => C11_NormalizationSkipsNulls

\* a null percentage cell beside a text one stays null and raises nothing
NullPercentageSkipped ==
    /\ pc = "normalized"
    /\ HasColumn(dataframe0, "host_response_rate")
    /\ dataframe0.data["host_response_rate"] = <<Text(<<"9", "0", "%">>), NaN>>
    /\ dataframe.data["host_response_rate"] = <<Num(90), NaN>>

-----------------------------------------------------------------------------
(* align_dataframes *)

MaxAlignRows == 1

\* the column names the derived tables are built over, in order
AlignColumns == <<<<"v">>, <<"a">>, <<"b">>, <<"c">>>>

\* set(df2.columns.tolist()).difference(set(df1.columns.tolist()))
columns_diff(df1, df2) == Range(df2.columns) \ Range(df1.columns)

\* df2.drop(columns_diff, axis=1, inplace=True); return df2: the caller's
\* df2 loses the columns df1 lacks and is the object returned; every label
\* dropped is a column of df2, so the drop cannot raise
align_dataframes(df1, df2) == DropColumns(df2, columns_diff(df1, df2))

\* df1 is args.df1, df2 is the caller's table; each has any of the columns
InitAlignDataframes ==
    /\ pc = "call_align_dataframes"
    /\ \E absent1, absent2 \in SUBSET Range(AlignColumns) :
       \E index1, index2 \in Indexes(MaxAlignRows) :
          /\ \E df1 \in Tables(index1, Without(AlignColumns, absent1), {Num(1)}) :
                args = [df1 |-> df1]
          /\ dataframe \in Tables(index2, Without(AlignColumns, absent2),
                                {Num(0), Num(1)})
    /\ dataframe0 = dataframe
    /\ ret = NoValue
    /\ err = NoError

CallAlignDataframes ==
    /\ pc = "call_align_dataframes"
    /\ dataframe' = align_dataframes(args.df1, dataframe)
    /\ ret' = dataframe'
    /\ pc' = "done"
    /\ UNCHANGED <<args, dataframe0, err>>

SpecAlignDataframes == InitAlignDataframes /\ [][CallAlignDataframes]_vars

\* the caller's df2 ends with exactly its columns that df1 also has, in its
\* own order and with their cells, and is the table returned
AlignedInPlace ==
    (pc = "done" /\ "df1" \in DOMAIN args) =>
        /\ ret = dataframe
        /\ dataframe.index = dataframe0.index
        /\ dataframe.columns =
              SelectSeq(dataframe0.columns, LAMBDA c : c \in Range(args.df1.columns))
        /\ \A c \in Range(dataframe.columns) : dataframe.data[c] = dataframe0.data[c]

\* df1 with v, a, b and df2 with v, a, b, c: c is gone from the caller's df2
AlignExample ==
    /\ pc = "done" /\ "df1" \in DOMAIN args
    /\ args.df1.columns = <<<<"v">>, <<"a">>, <<"b">>>>
    /\ dataframe0.columns = AlignColumns
    /\ dataframe.columns = <<<<"v">>, <<"a">>, <<"b">>>>

-----------------------------------------------------------------------------
(* Every call together *)

Init ==
    \/ InitDropMissing
    \/ InitHandleNumeric
    \/ InitGetModeByZip
    \/ InitGetMode
    \/ InitHandleCategorical
    \/ InitCleanData
    \/ InitGetDfFromColumn
    \/ InitNormalize
    \/ InitAlignDataframes

Next ==
    \/ CallDropMissing
    \/ CallHandleNumeric
    \/ CallGetModeByZip
    \/ CallGetMode
    \/ CallHandleCategorical
    \/ CallCleanData
    \/ CallCleanDataAgain
    \/ CallGetDfFromColumn
    \/ NormalizeColumns
    \/ FinishCleanData
    \/ CallAlignDataframes

Spec == Init /\ [][Next]_vars

====
